---- MODULE Spec2Model ----
(***************************************************************************)
(* Model of the real-time room/game engine of simon-game-app               *)
(* (src/unnamed/part_000, the Socket.io game handler).                     *)
(*                                                                         *)
(* One room is modelled.  Every socket event handler and every timer       *)
(* callback is one atomic action (Node runs each to completion).  The room *)
(* registry (gameService) and the pure game logic (simonLogic,             *)
(* colorRaceLogic) are not part of the handler file; they are modelled     *)
(* from the specification and kept in separate operators.                  *)
(***************************************************************************)
EXTENDS Integers, Sequences, FiniteSets, TLC

\* ------------------------------------------------------------------ bounds
\* room.players in join order
PlayerList == <<"p1", "p2">>
Players == {PlayerList[i] : i \in 1..Len(PlayerList)}
Sockets == {"s1", "s2", "s3"}
Colors  == {"red", "blue"}
None    == "none"
\* room.gameState before a game is initialised.
NoGame  == [gameType |-> "none"]

\* Largest round number the model lets a game reach.
MaxRound == 3
\* Largest number of delayed callbacks (setTimeout) pending at once.
MaxTimers == 2
\* Rounds of a race game (COLOR_RACE_CONSTANTS.TOTAL_ROUNDS).
TotalRounds == 2

\* --------------------------------------------------------------- variables
VARIABLES
    \* room registry (gameService)
    roomExists,         \* the room is in the registry
    status,             \* room.status
    members,            \* ids of room.players
    connected,          \* player.connected
    socketId,           \* player.socketId
    host,               \* the player whose isHost flag is set
    gameState,          \* room.gameState (NoGame or a game's record)
    \* engine-local state
    sockState,          \* "new" | "open" | "closed" per transport connection
    sockPlayer,         \* socket.playerId (None when the socket has no session)
    sockJoined,         \* the socket is subscribed to the room (socket.join)
    disconnectTimeouts, \* Map key -> handle; a handle is named by its socket
    graceTimer,         \* per socket: "none" | "buffer" | "removal" pending
    roundAnswers,       \* roundAnswers.get(gameCode): sequence of answers
    timers,             \* pending setTimeout callbacks of the games, oldest first
    cdCount,            \* the countdown interval's count (-1: no interval)
    endPolicy,          \* shouldGameEnd's minimum number of playing players
    clientMode,         \* the submission event the clients' build sends
    \* observation (history) variables
    phaseRound,         \* round of the latest simon:input_phase broadcast
    last,               \* the handler or callback that ran last
    out                 \* the notifications it emitted, in order

registryVars == <<roomExists, status, members, connected, socketId, host, gameState>>
socketVars   == <<sockState, sockPlayer, sockJoined>>
graceVars    == <<disconnectTimeouts, graceTimer>>
gameVars     == <<roundAnswers, timers, cdCount, endPolicy, clientMode, phaseRound>>
vars == <<registryVars, socketVars, graceVars, gameVars, last, out>>

\* ----------------------------------------------------------------- fan-out
\* Variant of the room fan-out that reaches every open connection.
RoomSubs_AllOpen(st, j) == {s \in Sockets : st[s] = "open"}

\* io.to(gameCode): every open connection subscribed to the room, given the
\* subscription table j and the connection states st.
RoomSubs(st, j) == {s \in Sockets : st[s] = "open" /\ j[s]}

Msg(ev, to, pl, data) == [ev |-> ev, to |-> to, pl |-> pl, data |-> data]

Label(op, s, p, ok) == [op |-> op, sock |-> s, player |-> p, ok |-> ok, info |-> None]
LabelI(op, s, p, ok, info) == [op |-> op, sock |-> s, player |-> p, ok |-> ok, info |-> info]

\* Position of a player in room.players.
Rank(p) == CHOOSE i \in 1..Len(PlayerList) : PlayerList[i] = p

\* ------------------------------------------------- registry (gameService)
\* updateSocketId: store the connection reference and mark connected.
UpdateSocketId(p, s) ==
    /\ socketId' = [socketId EXCEPT ![p] = s]
    /\ connected' = [connected EXCEPT ![p] = TRUE]

\* removePlayer succeeds for a member of an existing room.
CanRemove(p) == roomExists /\ p \in members

\* removeIfStillDisconnected succeeds for a member still marked disconnected.
CanRemoveDisconnected(p) == CanRemove(p) /\ ~connected[p]

\* removePlayer: drop the player; the room is deleted with its last player.
RemovePlayer(p) ==
    /\ members' = members \ {p}
    /\ roomExists' = (members \ {p} # {})
    /\ connected' = [connected EXCEPT ![p] = FALSE]
    /\ socketId' = [socketId EXCEPT ![p] = None]
    /\ host' = IF p = host
               THEN (IF members \ {p} = {} THEN None
                     ELSE CHOOSE q \in members \ {p} :
                              \A r \in members \ {p} : Rank(q) <= Rank(r))
               ELSE host
    /\ status' = status
    /\ gameState' = IF members \ {p} # {} THEN gameState ELSE NoGame

\* ------------------------------------------------------------ session binder
\* Variant of the token checks that accepts no token.
AutoReconnectOk_Never(tok) == FALSE

\* handleAutoReconnect, run when a connection is established; tok is the
\* player the verified session cookie names (None: no cookie, or invalid).
AutoReconnectOk(tok) == tok # None /\ roomExists /\ tok \in members

Connect(s, tok) ==
    /\ sockState[s] = "new"
    /\ sockState' = [sockState EXCEPT ![s] = "open"]
    /\ IF AutoReconnectOk(tok)
       THEN /\ UpdateSocketId(tok, s)
            /\ sockPlayer' = [sockPlayer EXCEPT ![s] = tok]
            /\ sockJoined' = [sockJoined EXCEPT ![s] = TRUE]
            /\ LET h == disconnectTimeouts[tok] IN
               IF h # None
               THEN /\ graceTimer' = [graceTimer EXCEPT ![h] = "none"]
                    /\ disconnectTimeouts' = [disconnectTimeouts EXCEPT ![tok] = None]
               ELSE UNCHANGED graceVars
            /\ out' = << Msg("player_reconnected",
                             RoomSubs(sockState', sockJoined') \ {s}, tok, None),
                         Msg("room_state", {s}, tok, None) >>
            /\ last' = Label("connect", s, tok, TRUE)
       ELSE /\ UNCHANGED <<connected, socketId, sockPlayer, sockJoined, graceVars>>
            /\ out' = << >>
            /\ last' = Label("connect", s, tok, FALSE)
    /\ UNCHANGED <<roomExists, status, members, host, gameState, gameVars>>

\* Variant of the join checks that leaves out the membership test.
JoinOk_RoomOnly(p) == roomExists

\* The join_room_socket handler.
JoinOk(p) == roomExists /\ p \in members

JoinRoomSocket(s, p) ==
    /\ sockState[s] = "open"
    /\ IF JoinOk(p)
       THEN /\ UpdateSocketId(p, s)
            /\ sockPlayer' = [sockPlayer EXCEPT ![s] = p]
            /\ sockJoined' = [sockJoined EXCEPT ![s] = TRUE]
            /\ out' = << Msg("room_state", {s}, p, None),
                         Msg("room_state_update", RoomSubs(sockState, sockJoined'), p, None),
                         Msg("player_joined", RoomSubs(sockState, sockJoined') \ {s}, p, None) >>
            /\ last' = Label("join_room_socket", s, p, TRUE)
       ELSE /\ UNCHANGED <<connected, socketId, sockPlayer, sockJoined>>
            /\ out' = << Msg("error", {s}, p, None) >>
            /\ last' = Label("join_room_socket", s, p, FALSE)
    /\ UNCHANGED <<roomExists, status, members, host, gameState, sockState, graceVars, gameVars>>

\* The leave_room handler.
LeaveRoom(s, p) ==
    /\ sockState[s] = "open"
    /\ IF CanRemove(p)
       THEN /\ RemovePlayer(p)
            /\ sockJoined' = [sockJoined EXCEPT ![s] = FALSE]
            /\ out' = << Msg("player_left", RoomSubs(sockState, sockJoined'), p, None),
                         Msg(IF roomExists' THEN "room_state_update" ELSE "room_closed",
                             RoomSubs(sockState, sockJoined'), p, None) >>
            /\ last' = Label("leave_room", s, p, TRUE)
       ELSE /\ UNCHANGED <<registryVars, sockJoined>>
            /\ out' = << >>
            /\ last' = Label("leave_room", s, p, FALSE)
    /\ sockPlayer' = [sockPlayer EXCEPT ![s] = None]
    /\ UNCHANGED <<sockState, graceVars, gameVars>>

\* ----------------------------------------------------- disconnect grace manager
\* handleDisconnect: the transport reports the connection closed.
Disconnect(s) ==
    /\ sockState[s] = "open"
    /\ sockState' = [sockState EXCEPT ![s] = "closed"]
    /\ sockJoined' = [sockJoined EXCEPT ![s] = FALSE]
    /\ IF sockPlayer[s] = None
       THEN UNCHANGED graceVars
       ELSE /\ graceTimer' = [graceTimer EXCEPT ![s] = "buffer"]
            /\ disconnectTimeouts' = [disconnectTimeouts EXCEPT ![sockPlayer[s]] = s]
    /\ out' = << >>
    /\ last' = Label("disconnect", s, sockPlayer[s], sockPlayer[s] # None)
    /\ UNCHANGED <<registryVars, sockPlayer, gameVars>>

\* The buffer timeout's callback.
BufferFire(s) ==
    /\ graceTimer[s] = "buffer"
    /\ LET p == sockPlayer[s] IN
       /\ connected' = IF roomExists /\ p \in members
                       THEN [connected EXCEPT ![p] = FALSE] ELSE connected
       /\ out' = << Msg("player_disconnected", RoomSubs(sockState, sockJoined), p, None) >>
       /\ graceTimer' = [graceTimer EXCEPT ![s] = "removal"]
       /\ disconnectTimeouts' = [disconnectTimeouts EXCEPT ![p] = s]
       /\ last' = Label("buffer_fire", s, p, roomExists /\ p \in members)
    /\ UNCHANGED <<roomExists, status, members, socketId, host, gameState, socketVars, gameVars>>

\* Variant of the removal callback that only drops its timer.
RemovalFire_Drop(s) ==
    /\ graceTimer[s] = "removal"
    /\ disconnectTimeouts' = [disconnectTimeouts EXCEPT ![sockPlayer[s]] = None]
    /\ graceTimer' = [graceTimer EXCEPT ![s] = "none"]
    /\ out' = << >>
    /\ last' = Label("removal_fire", s, sockPlayer[s], FALSE)
    /\ UNCHANGED <<registryVars, socketVars, gameVars>>

\* The removal timeout's callback.
RemovalFire(s) ==
    /\ graceTimer[s] = "removal"
    /\ LET p == sockPlayer[s] IN
       /\ IF CanRemoveDisconnected(p)
          THEN /\ RemovePlayer(p)
               /\ out' = << Msg("player_left", RoomSubs(sockState, sockJoined), p, None),
                            Msg(IF roomExists' THEN "room_state_update" ELSE "room_closed",
                                RoomSubs(sockState, sockJoined), p, None) >>
          ELSE /\ UNCHANGED registryVars
               /\ out' = << >>
       /\ disconnectTimeouts' = [disconnectTimeouts EXCEPT ![p] = None]
       /\ graceTimer' = [graceTimer EXCEPT ![s] = "none"]
       /\ last' = Label("removal_fire", s, p, CanRemoveDisconnected(p))
    /\ UNCHANGED <<socketVars, gameVars>>

\* ------------------------------------------------------------ dead-room sweeper
\* The cleanup interval: the registry evicts a room with no connected member.
CleanupDeadRooms ==
    /\ roomExists
    /\ \A p \in members : ~connected[p]
    /\ roomExists' = FALSE
    /\ members' = {}
    /\ host' = None
    /\ gameState' = NoGame
    /\ socketId' = [p \in Players |-> None]
    /\ out' = << >>
    /\ last' = Label("cleanup", None, None, TRUE)
    /\ UNCHANGED <<status, connected, socketVars, graceVars, gameVars>>

\* ------------------------------------------------ delayed callbacks (setTimeout)
\* Node keeps one list of pending timers per duration, runs the lists in
\* order of the due time of their oldest timer, and runs the due callbacks of
\* one list in scheduling order before it turns to the next list.  Arrival
\* times of events are free.
\* Durations: "d500" (500 ms), "d2000" (2000 ms), "show" (sequence display
\* time + 500 ms, growing with the sequence length n), "result" (the race
\* game's ROUND_RESULT_DELAY_MS).
\* The two timers are in one list.
SameList(old, new) == old.delay = new.delay /\ old.n = new.n

\* The older timer is of a shorter duration, so it is due first.
DueFirst(old, new) ==
    \/ old.delay = new.delay /\ old.n < new.n
    \/ old.delay = "d500" /\ new.delay # "d500"

\* The step that ran last was a callback of t's list.  When the event loop
\* is late, t is due as well and runs next, whatever is pending in the
\* other lists.
InSweep(t) ==
    \/ t.delay = "d2000" /\ last.op \in {"advance_fire", "eliminate_fire"}
    \/ t.delay = "show" /\ last.op = "sequence_complete_fire" /\ last.info = t.cap
    \/ t.delay = "d500" /\ last.op \in {"start_sequence_fire", "input_phase_fire"}
    \/ t.delay = "result" /\ last.op = "new_round_fire"

\* The newer timer cannot run while the older one is pending.
Blocks(old, new) ==
    \/ SameList(old, new)
    \/ DueFirst(old, new) /\ ~InSweep(new)

CanFire(i) ==
    /\ i \in 1..Len(timers)
    /\ \A j \in 1..(i - 1) : ~Blocks(timers[j], timers[i])

RemoveAt(seq, i) == SubSeq(seq, 1, i - 1) \o SubSeq(seq, i + 1, Len(seq))

Timer(kind, delay, n, cap) == [kind |-> kind, delay |-> delay, n |-> n, cap |-> cap]

\* ------------------------------------------------ race game (colorRaceLogic)
\* initializeColorRaceGame, with the first target color c.
InitializeColorRaceGame(c) ==
    [gameType |-> "color_race", round |-> 1, totalRounds |-> TotalRounds,
     currentColor |-> c, scores |-> [p \in Players |-> 0],
     roundWinner |-> None, phase |-> "in_round"]

\* processRound: the earliest correct answer wins the round and scores a
\* point; after the last round the phase is finished; c is the next target.
RoundWinner(gs, answers) ==
    LET right == {i \in 1..Len(answers) : answers[i].color = gs.currentColor}
    IN  IF right = {} THEN None
        ELSE answers[CHOOSE i \in right : \A j \in right : i <= j].playerId

ProcessRound(gs, answers, c) ==
    LET w == RoundWinner(gs, answers)
        fin == gs.round >= gs.totalRounds
    IN  [gs EXCEPT !.scores = IF w = None THEN @ ELSE [@ EXCEPT ![w] = @ + 1],
                   !.roundWinner = w,
                   !.round = IF fin THEN @ ELSE @ + 1,
                   !.currentColor = c,
                   !.phase = IF fin THEN "finished" ELSE "in_round"]

\* determineWinner: a player with the highest score.
TopScorers(gs) == {p \in Players : \A q \in Players : gs.scores[q] <= gs.scores[p]}

\* --------------------------------------------------------- race-game orchestrator
\* answers.some(a => a.playerId === playerId)
AlreadyAnswered(answers, p) == \E i \in 1..Len(answers) : answers[i].playerId = p

\* room.players.filter(p => p.connected)
ConnectedPlayers == {p \in members : connected[p]}

\* answers.length >= connectedPlayers.length
RoundComplete(answers) == Len(answers) >= Cardinality(ConnectedPlayers)

\* The color_race:submit_answer handler's guards: room active, variant color_race.
RaceAccepts == roomExists /\ status = "active" /\ gameState.gameType = "color_race"

\* processColorRaceRound as called from the handler, followed by the handler's
\* clearing of the answer list.  The payload of color_race:game_finished reads
\* winnerPlayer!.displayName: when the winner w is no longer in room.players
\* this throws, and the handler's catch block ends the event there.
ResolveRound(answers, c, w) ==
    LET ns == ProcessRound(gameState, answers, c)
        subs == RoomSubs(sockState, sockJoined)
        result == Msg("color_race:round_result", subs, ns.roundWinner, ns.scores)
    IN  /\ gameState' = ns
        /\ IF ns.phase = "finished"
           THEN /\ w \in TopScorers(ns)
                /\ timers' = timers
                /\ IF w \in members
                   THEN /\ out' = << result, Msg("color_race:game_finished", subs, w, ns.scores) >>
                        /\ status' = "finished"
                        /\ roundAnswers' = << >>
                   ELSE /\ out' = << result >>
                        /\ status' = status
                        /\ roundAnswers' = answers
           ELSE /\ w = None
                /\ timers' = Append(timers, Timer("new_round", "result", 0,
                                                  [round |-> ns.round, color |-> ns.currentColor]))
                /\ out' = << result >>
                /\ status' = status
                /\ roundAnswers' = << >>

\* The color_race:submit_answer handler.
ColorRaceSubmit(s, p, color) ==
    /\ sockState[s] = "open"
    /\ IF RaceAccepts /\ ~AlreadyAnswered(roundAnswers, p)
       THEN LET answers == Append(roundAnswers, [playerId |-> p, color |-> color]) IN
            IF RoundComplete(answers)
            THEN /\ \E c \in Colors, w \in Players \cup {None} : ResolveRound(answers, c, w)
                 /\ last' = LabelI("color_race:submit_answer", s, p, TRUE,
                                   [resolved |-> TRUE, nAnswers |-> Len(answers),
                                    answered |-> {answers[i].playerId : i \in 1..Len(answers)},
                                    connectedPlayers |-> ConnectedPlayers])
            ELSE /\ roundAnswers' = answers
                 /\ out' = << >>
                 /\ last' = LabelI("color_race:submit_answer", s, p, TRUE,
                                   [resolved |-> FALSE, nAnswers |-> Len(answers),
                                    answered |-> {answers[i].playerId : i \in 1..Len(answers)},
                                    connectedPlayers |-> ConnectedPlayers])
                 /\ UNCHANGED <<gameState, status, timers>>
       ELSE /\ UNCHANGED <<gameState, status, timers, roundAnswers>>
            /\ out' = << >>
            /\ last' = Label("color_race:submit_answer", s, p, FALSE)
    /\ UNCHANGED <<roomExists, members, connected, socketId, host, socketVars, graceVars,
                   cdCount, endPolicy, clientMode, phaseRound>>

\* The callback processColorRaceRound schedules for the next round.
NewRoundFire(i) ==
    /\ CanFire(i)
    /\ timers[i].kind = "new_round"
    /\ timers' = RemoveAt(timers, i)
    /\ IF roomExists /\ status = "active"
       THEN out' = << Msg("color_race:new_round", RoomSubs(sockState, sockJoined),
                          None, timers[i].cap) >>
       ELSE out' = << >>
    /\ last' = Label("new_round_fire", None, None, roomExists /\ status = "active")
    /\ UNCHANGED <<registryVars, socketVars, graceVars, roundAnswers, cdCount,
                   endPolicy, clientMode, phaseRound>>

\* -------------------------------------------------- sequence game (simonLogic)
\* All color sequences of length n.
SeqsOfLen(n) == [1..n -> Colors]

\* initializeSimonGame: round 1, a one-color sequence, everyone playing.
InitializeSimonGame(ps, c) ==
    [gameType |-> "simon", round |-> 1, sequence |-> << c >>,
     playerStates |-> [p \in ps |-> [status |-> "playing", currentInputIndex |-> 0]]]

\* validateSequence: same length and the same color at every position.
RECURSIVE SameFrom(_, _, _)
SameFrom(a, b, i) ==
    IF i > Len(a) THEN TRUE
    ELSE IF a[i] # b[i] THEN FALSE
    ELSE SameFrom(a, b, i + 1)

ValidateSequence(gs, seq) == Len(seq) = Len(gs.sequence) /\ SameFrom(gs.sequence, seq, 1)

\* validateInput: the step is the one the player's progress pointer expects
\* and carries the sequence's color at that position.
ValidateInput(gs, p, color, idx) ==
    /\ idx = gs.playerStates[p].currentInputIndex
    /\ idx < Len(gs.sequence)
    /\ gs.sequence[idx + 1] = color

\* eliminatePlayer
EliminatePlayer(gs, p) ==
    IF p \in DOMAIN gs.playerStates
    THEN [gs EXCEPT !.playerStates[p].status = "eliminated"]
    ELSE gs

\* updatePlayerProgress
UpdatePlayerProgress(gs, p) ==
    [gs EXCEPT !.playerStates[p].currentInputIndex = @ + 1]

\* advanceToNextRound: next round number, a fresh sequence one color longer,
\* every progress pointer back at 0.
AdvanceToNextRound(gs, seq) ==
    [gs EXCEPT !.round = @ + 1,
               !.sequence = seq,
               !.playerStates = [p \in DOMAIN @ |-> [@[p] EXCEPT !.currentInputIndex = 0]]]

Playing(gs) == {p \in DOMAIN gs.playerStates : gs.playerStates[p].status = "playing"}

\* shouldGameEnd: fewer than the minimum number of players are still playing.
ShouldGameEnd(gs) == Cardinality(Playing(gs)) < endPolicy

\* getWinner: a player still playing, if any.
Winners(gs) == IF Playing(gs) = {} THEN {None} ELSE Playing(gs)

\* ----------------------------------------------------- sequence-game orchestrator
\* Variant of the guards that leaves out the player's status.
SimonAccepts_AnyStatus(p) ==
    /\ roomExists /\ status = "active"
    /\ gameState.gameType = "simon"
    /\ p \in DOMAIN gameState.playerStates

\* Variant of the guards that leaves out the room status.
SimonAccepts_AnyRoomStatus(p) ==
    /\ roomExists
    /\ gameState.gameType = "simon"
    /\ p \in DOMAIN gameState.playerStates
    /\ gameState.playerStates[p].status = "playing"

\* The simon handlers' three guards: room active, variant simon, player playing.
SimonAccepts(p) ==
    /\ roomExists /\ status = "active"
    /\ gameState.gameType = "simon"
    /\ p \in DOMAIN gameState.playerStates
    /\ gameState.playerStates[p].status = "playing"

\* showSimonSequence: the broadcast and the callback it schedules.
ShowMsg(gs) ==
    Msg("simon:show_sequence", RoomSubs(sockState, sockJoined), None,
        [round |-> gs.round, sequence |-> gs.sequence])

CompleteTimer(gs) == Timer("complete", "show", Len(gs.sequence), [round |-> gs.round])

\* finishSimonGame: the broadcast; the status update is in the callers.
FinishMsg(gs, w) ==
    Msg("simon:game_finished", RoomSubs(sockState, sockJoined), w, [finalRound |-> gs.round])

\* Variant of the verdict that judges every submission correct.
ResultIsCorrect_Always(gs, seq) == TRUE

\* isCorrect as the simon:submit_sequence handler computes it.
ResultIsCorrect(gs, seq) == ValidateSequence(gs, seq)

\* The simon:submit_sequence handler.
SubmitSequence(s, p, seq) ==
    /\ sockState[s] = "open"
    /\ IF SimonAccepts(p)
       THEN LET ok == ResultIsCorrect(gameState, seq) IN
            /\ Len(timers) < MaxTimers
            /\ out' = << Msg("simon:result", RoomSubs(sockState, sockJoined), p,
                             [isCorrect |-> ok, correctSequence |-> gameState.sequence]) >>
            /\ timers' = Append(timers,
                   IF ok THEN Timer("advance", "d2000", 0, [from |-> "sequence"])
                   ELSE Timer("eliminate", "d2000", 0, [gs |-> gameState, player |-> p]))
            /\ last' = LabelI("simon:submit_sequence", s, p, TRUE, [sequence |-> seq])
       ELSE /\ out' = << >>
            /\ timers' = timers
            /\ last' = LabelI("simon:submit_sequence", s, p, FALSE, [sequence |-> seq])
    /\ UNCHANGED <<registryVars, socketVars, graceVars, roundAnswers, cdCount,
                   endPolicy, clientMode, phaseRound>>

\* Variant of the completion check that looks at the submitter alone, who
\* has just completed the round.
AllComplete_SubmitterOnly(gs) == TRUE

\* Object.values(newState.playerStates).every(...)
AllComplete(gs) ==
    \A q \in DOMAIN gs.playerStates :
        \/ gs.playerStates[q].status # "playing"
        \/ gs.playerStates[q].currentInputIndex >= Len(gs.sequence)

\* The simon:submit_input handler.
SubmitInput(s, p, color, idx) ==
    /\ sockState[s] = "open"
    /\ IF ~SimonAccepts(p)
       THEN /\ out' = << >>
            /\ UNCHANGED <<gameState, status, timers>>
            /\ last' = LabelI("simon:submit_input", s, p, FALSE, [color |-> color, index |-> idx])
       ELSE IF ~ValidateInput(gameState, p, color, idx)
       THEN LET ns == EliminatePlayer(gameState, p)
                gone == Msg("simon:player_eliminated", RoomSubs(sockState, sockJoined),
                            p, [reason |-> "wrong_color"])
            IN  /\ gameState' = ns
                /\ timers' = timers
                /\ IF ShouldGameEnd(ns)
                   THEN /\ \E w \in Winners(ns) : out' = << gone, FinishMsg(ns, w) >>
                        /\ status' = "finished"
                   ELSE /\ out' = << gone >>
                        /\ status' = status
                /\ last' = LabelI("simon:submit_input", s, p, TRUE, [color |-> color, index |-> idx])
       ELSE LET ns == UpdatePlayerProgress(gameState, p)
                schedule == /\ ns.playerStates[p].currentInputIndex >= Len(ns.sequence)
                            /\ AllComplete(ns)
            IN  /\ gameState' = ns
                /\ status' = status
                /\ out' = << Msg("simon:input_correct", RoomSubs(sockState, sockJoined),
                                 p, [index |-> idx]) >>
                /\ IF schedule
                   THEN /\ Len(timers) < MaxTimers
                        /\ timers' = Append(timers, Timer("advance", "d2000", 0, [from |-> "input"]))
                   ELSE timers' = timers
                /\ last' = LabelI("simon:submit_input", s, p, TRUE, [color |-> color, index |-> idx])
    /\ UNCHANGED <<roomExists, members, connected, socketId, host, socketVars, graceVars,
                   roundAnswers, cdCount, endPolicy, clientMode, phaseRound>>

\* The callback startCountdown schedules to start the first round.
StartSequenceFire(i) ==
    /\ CanFire(i)
    /\ timers[i].kind = "start"
    /\ out' = << ShowMsg(timers[i].cap.gs) >>
    /\ timers' = Append(RemoveAt(timers, i), CompleteTimer(timers[i].cap.gs))
    /\ last' = LabelI("start_sequence_fire", None, None, TRUE, [round |-> timers[i].cap.gs.round])
    /\ UNCHANGED <<registryVars, socketVars, graceVars, roundAnswers, cdCount,
                   endPolicy, clientMode, phaseRound>>

\* showSimonSequence's first callback: the display is over.
SequenceCompleteFire(i) ==
    /\ CanFire(i)
    /\ timers[i].kind = "complete"
    /\ out' = << Msg("simon:sequence_complete", RoomSubs(sockState, sockJoined), None, None) >>
    /\ timers' = Append(RemoveAt(timers, i), Timer("input", "d500", 0, timers[i].cap))
    /\ last' = LabelI("sequence_complete_fire", None, None, TRUE, timers[i].cap)
    /\ UNCHANGED <<registryVars, socketVars, graceVars, roundAnswers, cdCount,
                   endPolicy, clientMode, phaseRound>>

\* showSimonSequence's second callback: the input phase opens.
InputPhaseFire(i) ==
    /\ CanFire(i)
    /\ timers[i].kind = "input"
    /\ out' = << Msg("simon:input_phase", RoomSubs(sockState, sockJoined), None, timers[i].cap) >>
    /\ timers' = RemoveAt(timers, i)
    /\ phaseRound' = timers[i].cap.round
    /\ last' = LabelI("input_phase_fire", None, None, TRUE, timers[i].cap)
    /\ UNCHANGED <<registryVars, socketVars, graceVars, roundAnswers, cdCount,
                   endPolicy, clientMode>>

\* advanceSimonRound's guards.
AdvanceApplies == roomExists /\ status = "active" /\ gameState.gameType = "simon"

\* advanceSimonRound, the callback of a round-advance timer.
AdvanceFire(i) ==
    /\ CanFire(i)
    /\ timers[i].kind = "advance"
    /\ IF AdvanceApplies
       THEN /\ gameState.round < MaxRound
            /\ \E seq \in SeqsOfLen(Len(gameState.sequence) + 1) :
                 LET ns == AdvanceToNextRound(gameState, seq) IN
                 /\ gameState' = ns
                 /\ out' = << ShowMsg(ns) >>
                 /\ timers' = Append(RemoveAt(timers, i), CompleteTimer(ns))
            /\ last' = LabelI("advance_fire", None, None, TRUE, timers[i].cap)
       ELSE /\ gameState' = gameState
            /\ out' = << >>
            /\ timers' = RemoveAt(timers, i)
            /\ last' = LabelI("advance_fire", None, None, FALSE, timers[i].cap)
    /\ UNCHANGED <<roomExists, status, members, connected, socketId, host, socketVars,
                   graceVars, roundAnswers, cdCount, endPolicy, clientMode, phaseRound>>

\* The callback scheduled after an incorrect whole-sequence submission: it
\* eliminates the player in the game state captured by the handler, stores
\* the result and ends the game.  The registry ignores updates of an absent room.
EliminateFire(i) ==
    /\ CanFire(i)
    /\ timers[i].kind = "eliminate"
    /\ LET ns == EliminatePlayer(timers[i].cap.gs, timers[i].cap.player) IN
       /\ gameState' = IF roomExists THEN ns ELSE gameState
       /\ \E w \in Winners(ns) : out' = << FinishMsg(ns, w) >>
       /\ status' = IF roomExists THEN "finished" ELSE status
    /\ timers' = RemoveAt(timers, i)
    /\ last' = Label("eliminate_fire", None, timers[i].cap.player, TRUE)
    /\ UNCHANGED <<roomExists, members, connected, socketId, host, socketVars, graceVars,
                   roundAnswers, cdCount, endPolicy, clientMode, phaseRound>>

\* ------------------------------------------------------------ countdown scheduler
\* Variant of the start_game checks that leaves out the room status.
StartAllowed_AnyStatus(p) == roomExists /\ p \in members /\ p = host

\* The start_game handler's checks: room found, requester is the host, room waiting.
StartAllowed(p) == roomExists /\ p \in members /\ p = host /\ status = "waiting"

\* The start_game handler, with startCountdown's synchronous part.
StartGame(s, p) ==
    /\ sockState[s] = "open"
    /\ IF StartAllowed(p)
       THEN /\ status' = "countdown"
            /\ cdCount' = 3
            /\ out' = << >>
            /\ last' = Label("start_game", s, p, TRUE)
       ELSE /\ UNCHANGED <<status, cdCount>>
            /\ out' = << Msg("error", {s}, p, None) >>
            /\ last' = Label("start_game", s, p, FALSE)
    /\ UNCHANGED <<roomExists, members, connected, socketId, host, gameState, socketVars,
                   graceVars, roundAnswers, timers, endPolicy, clientMode, phaseRound>>

\* Variant of the selection that picks the race game.
SelectedVariant_Race == "color_race"

\* const gameType = 'simon'
SelectedVariant == "simon"

\* Variant of the interval's final-tick test that is already true at 1.
CountdownDone_AtOne(c) == c <= 1

\* count === 0
CountdownDone(c) == c = 0

\* One tick of startCountdown's interval.
CountdownTick ==
    /\ cdCount >= 0
    /\ LET tick == Msg("countdown", RoomSubs(sockState, sockJoined), None, [count |-> cdCount]) IN
       IF ~CountdownDone(cdCount)
       THEN /\ cdCount' = cdCount - 1
            /\ out' = << tick >>
            /\ UNCHANGED <<status, gameState, timers>>
       ELSE /\ cdCount' = -1
            /\ status' = IF roomExists THEN "active" ELSE status
            /\ IF ~roomExists
               THEN /\ out' = << tick >>
                    /\ UNCHANGED <<gameState, timers>>
               ELSE IF SelectedVariant = "simon"
               THEN \E c \in Colors :
                      LET gs == InitializeSimonGame(members, c) IN
                      /\ gameState' = gs
                      /\ timers' = Append(timers, Timer("start", "d500", 0, [gs |-> gs]))
                      /\ out' = << tick >>
               ELSE \E c \in Colors :
                      LET gs == InitializeColorRaceGame(c) IN
                      /\ gameState' = gs
                      /\ timers' = timers
                      /\ out' = << tick,
                                   Msg("color_race:new_round", RoomSubs(sockState, sockJoined), None,
                                       [round |-> gs.round, color |-> gs.currentColor]) >>
    /\ last' = LabelI("countdown_tick", None, None, TRUE, [count |-> cdCount])
    /\ UNCHANGED <<roomExists, members, connected, socketId, host, socketVars, graceVars,
                   roundAnswers, endPolicy, clientMode, phaseRound>>

\* ------------------------------------------------------------ specifications
InitSockets ==
    /\ sockState = [s \in Sockets |-> "new"]
    /\ sockPlayer = [s \in Sockets |-> None]
    /\ sockJoined = [s \in Sockets |-> FALSE]
    /\ disconnectTimeouts = [p \in Players |-> None]
    /\ graceTimer = [s \in Sockets |-> "none"]

InitObs ==
    /\ phaseRound = 0
    /\ last = Label("init", None, None, TRUE)
    /\ out = << >>

\* A waiting room whose players were created over HTTP and have not yet
\* opened a connection.
InitGrace ==
    /\ roomExists = TRUE
    /\ status = "waiting"
    /\ members = Players
    /\ connected = [p \in Players |-> FALSE]
    /\ socketId = [p \in Players |-> None]
    /\ host = "p1"
    /\ gameState = NoGame
    /\ InitSockets
    /\ roundAnswers = << >>
    /\ timers = << >>
    /\ cdCount = -1
    /\ endPolicy = 2
    /\ clientMode = "sequence"
    /\ InitObs

NextGrace ==
    \/ \E s \in Sockets, tok \in Players \cup {None} : Connect(s, tok)
    \/ \E s \in Sockets, p \in Players : JoinRoomSocket(s, p)
    \/ \E s \in Sockets, p \in Players : LeaveRoom(s, p)
    \/ \E s \in Sockets : Disconnect(s)
    \/ \E s \in Sockets : BufferFire(s)
    \/ \E s \in Sockets : RemovalFire(s)
    \/ CleanupDeadRooms

SpecGrace == InitGrace /\ [][NextGrace]_vars

\* A scheduled setTimeout callback that stays pending is eventually run.
SpecGraceFair ==
    /\ SpecGrace
    /\ \A s \in Sockets : WF_vars(BufferFire(s)) /\ WF_vars(RemovalFire(s))

\* A waiting room whose two players are bound to open connections; the host
\* is about to start the game.  The end-of-game policy is either of the two
\* the specification leaves open (stop below 1 or below 2 playing players).
InitSimon ==
    /\ roomExists = TRUE
    /\ status = "waiting"
    /\ members = Players
    /\ connected = [p \in Players |-> TRUE]
    /\ socketId = [p \in Players |-> IF p = "p1" THEN "s1" ELSE "s2"]
    /\ host = "p1"
    /\ gameState = NoGame
    /\ sockState = [s \in Sockets |-> IF s \in {"s1", "s2"} THEN "open" ELSE "closed"]
    /\ sockPlayer = [s \in Sockets |-> IF s = "s1" THEN "p1" ELSE IF s = "s2" THEN "p2" ELSE None]
    /\ sockJoined = [s \in Sockets |-> s \in {"s1", "s2"}]
    /\ disconnectTimeouts = [p \in Players |-> None]
    /\ graceTimer = [s \in Sockets |-> "none"]
    /\ roundAnswers = << >>
    /\ timers = << >>
    /\ cdCount = -1
    /\ clientMode \in {"sequence", "input"}
    /\ endPolicy \in {1, 2}
    /\ InitObs

\* Candidate sequences a client may submit: any sequence up to one color
\* longer than the longest the model generates.
\* In SpecSimon, SpecPaced and SpecMixed a submitting connection names the
\* player it is bound to, as the repository's client does; SpecGuards lets a
\* payload name any player.
Submissions == UNION {SeqsOfLen(n) : n \in 0..MaxRound}

NextSimon ==
    \/ \E s \in Sockets : sockPlayer[s] # None /\ StartGame(s, sockPlayer[s])
    \/ CountdownTick
    \/ \E s \in Sockets, q \in Submissions :
           /\ clientMode = "sequence" /\ sockPlayer[s] # None
           /\ SubmitSequence(s, sockPlayer[s], q)
    \/ \E s \in Sockets, c \in Colors, i \in 0..MaxRound :
           /\ clientMode = "input" /\ sockPlayer[s] # None
           /\ SubmitInput(s, sockPlayer[s], c, i)
    \/ \E i \in 1..MaxTimers : StartSequenceFire(i)
    \/ \E i \in 1..MaxTimers : SequenceCompleteFire(i)
    \/ \E i \in 1..MaxTimers : InputPhaseFire(i)
    \/ \E i \in 1..MaxTimers : AdvanceFire(i)
    \/ \E i \in 1..MaxTimers : EliminateFire(i)
    \/ \E s \in Sockets : sockPlayer[s] # None /\ LeaveRoom(s, sockPlayer[s])

SpecSimon == InitSimon /\ [][NextSimon]_vars

\* The start of a game seen from the platform side: the waiting room of
\* InitSimon, with requests that may name any player, connections that come
\* and go during the countdown, and the first round's pacing callbacks.
InitCountdown ==
    /\ InitSimon
    /\ clientMode = "sequence"
    /\ endPolicy = 2

NextCountdown ==
    \/ \E s \in Sockets, p \in Players : StartGame(s, p)
    \/ CountdownTick
    \/ \E s \in Sockets, p \in Players : JoinRoomSocket(s, p)
    \/ \E s \in Sockets, p \in Players : LeaveRoom(s, p)
    \/ \E s \in Sockets : Disconnect(s)
    \/ \E s \in Sockets : BufferFire(s)
    \/ \E s \in Sockets : RemovalFire(s)
    \/ CleanupDeadRooms
    \/ \E i \in 1..MaxTimers : StartSequenceFire(i)
    \/ \E i \in 1..MaxTimers : SequenceCompleteFire(i)
    \/ \E i \in 1..MaxTimers : InputPhaseFire(i)

SpecCountdown == InitCountdown /\ [][NextCountdown]_vars

\* The waiting room of InitSimon.  Clients send the submissions of both
\* variants whatever the room plays, and a submission names the player its
\* payload carries, whichever connection sends it.
InitGuards ==
    /\ InitSimon
    /\ endPolicy = 2

\* Candidate sequences of these clients: up to the length of the longest
\* sequence a round below the last one shows.
ShortSubmissions == UNION {SeqsOfLen(n) : n \in 0..(MaxRound - 1)}

NextGuards ==
    \/ \E s \in Sockets : sockPlayer[s] # None /\ StartGame(s, sockPlayer[s])
    \/ CountdownTick
    \/ \E s \in Sockets, p \in Players, c \in Colors : ColorRaceSubmit(s, p, c)
    \/ \E s \in Sockets, p \in Players, q \in ShortSubmissions :
           clientMode = "sequence" /\ SubmitSequence(s, p, q)
    \/ \E s \in Sockets, p \in Players, c \in Colors, i \in 0..MaxRound :
           clientMode = "input" /\ SubmitInput(s, p, c, i)
    \/ \E i \in 1..MaxTimers : StartSequenceFire(i)
    \/ \E i \in 1..MaxTimers : SequenceCompleteFire(i)
    \/ \E i \in 1..MaxTimers : InputPhaseFire(i)
    \/ \E i \in 1..MaxTimers : AdvanceFire(i)
    \/ \E i \in 1..MaxTimers : EliminateFire(i)
    \/ \E s \in Sockets : sockPlayer[s] # None /\ LeaveRoom(s, sockPlayer[s])

SpecGuards == InitGuards /\ [][NextGuards]_vars

\* A whole-sequence game whose clients follow the pacing broadcasts: a client
\* submits only after simon:input_phase has been announced for the current
\* round, and not again right after its own submission.
InitPaced ==
    /\ InitSimon
    /\ clientMode = "sequence"
    /\ endPolicy = 2

NextPaced ==
    \/ \E s \in Sockets : sockPlayer[s] # None /\ StartGame(s, sockPlayer[s])
    \/ CountdownTick
    \/ \E s \in Sockets, q \in Submissions :
           /\ sockPlayer[s] # None
           /\ gameState.gameType = "simon" /\ phaseRound = gameState.round
           /\ ~(last.op = "simon:submit_sequence" /\ last.player = sockPlayer[s])
           /\ SubmitSequence(s, sockPlayer[s], q)
    \/ \E i \in 1..MaxTimers : StartSequenceFire(i)
    \/ \E i \in 1..MaxTimers : SequenceCompleteFire(i)
    \/ \E i \in 1..MaxTimers : InputPhaseFire(i)
    \/ \E i \in 1..MaxTimers : AdvanceFire(i)
    \/ \E i \in 1..MaxTimers : EliminateFire(i)
    \/ \E s \in Sockets : sockPlayer[s] # None /\ LeaveRoom(s, sockPlayer[s])

SpecPaced == InitPaced /\ [][NextPaced]_vars

\* The waiting room of InitSimon in a game played through per-step
\* submissions that stops below one playing player, so the room stays active
\* after an elimination.  The client of a player who is out of the game sends
\* the whole-sequence event as well.
InitMixed ==
    /\ roomExists = TRUE
    /\ status = "waiting"
    /\ members = Players
    /\ connected = [p \in Players |-> TRUE]
    /\ socketId = [p \in Players |-> IF p = "p1" THEN "s1" ELSE "s2"]
    /\ host = "p1"
    /\ gameState = NoGame
    /\ sockState = [s \in Sockets |-> IF s \in {"s1", "s2"} THEN "open" ELSE "closed"]
    /\ sockPlayer = [s \in Sockets |-> IF s = "s1" THEN "p1" ELSE IF s = "s2" THEN "p2" ELSE None]
    /\ sockJoined = [s \in Sockets |-> s \in {"s1", "s2"}]
    /\ disconnectTimeouts = [p \in Players |-> None]
    /\ graceTimer = [s \in Sockets |-> "none"]
    /\ roundAnswers = << >>
    /\ timers = << >>
    /\ cdCount = -1
    /\ clientMode = "both"
    /\ endPolicy = 1
    /\ InitObs

NextMixed ==
    \/ \E s \in Sockets : sockPlayer[s] # None /\ StartGame(s, sockPlayer[s])
    \/ CountdownTick
    \/ \E s \in Sockets, q \in ShortSubmissions :
           /\ sockPlayer[s] # None
           /\ gameState.gameType = "simon"
           /\ sockPlayer[s] \notin Playing(gameState)
           /\ SubmitSequence(s, sockPlayer[s], q)
    \/ \E s \in Sockets, c \in Colors, i \in 0..MaxRound :
           /\ sockPlayer[s] # None
           /\ SubmitInput(s, sockPlayer[s], c, i)
    \/ \E i \in 1..MaxTimers : StartSequenceFire(i)
    \/ \E i \in 1..MaxTimers : SequenceCompleteFire(i)
    \/ \E i \in 1..MaxTimers : InputPhaseFire(i)
    \/ \E i \in 1..MaxTimers : AdvanceFire(i)

SpecMixed == InitMixed /\ [][NextMixed]_vars

\* ------------------------------------------------------------------ properties
\* Pending grace timers (scheduled, neither fired to the end nor cancelled) of
\* a key; a timer carries the player its connection was bound to.
PendingGrace(p) == {s \in Sockets : graceTimer[s] # "none" /\ sockPlayer[s] = p}

\* A connection that is open and bound to the player.
LiveBinding(p) == \E s \in Sockets : sockState[s] = "open" /\ sockPlayer[s] = p

\* C1: in every reachable state each (room, player) key has at most one
\* pending disconnect grace timer.
C1_OneTimerPerKey == \A p \in Players : Cardinality(PendingGrace(p)) <= 1

\* C2: a player who has rebound to an open connection before the removal
\* timer fires is not removed by that timer (stays a member, no player_left).
C2_RebindKeepsPlayer ==
    ~(last.op = "removal_fire" /\ last.ok /\ LiveBinding(last.player))

\* C3: every successful rebind, by session token or by join_room_socket,
\* leaves the key without a timer-table entry and without a pending timer.
C3_RebindCancelsTimer ==
    (last.op \in {"connect", "join_room_socket"} /\ last.ok)
        => (disconnectTimeouts[last.player] = None /\ PendingGrace(last.player) = {})

\* C7: a simon submission is accepted only after simon:input_phase has been
\* broadcast for the current round.
C7_AcceptOnlyInInputPhase ==
    (last.op \in {"simon:submit_sequence", "simon:submit_input"} /\ last.ok)
        => phaseRound = gameState.round

\* C8: an accepted whole-sequence submission broadcasts exactly one
\* simon:result to the whole room, for the submitting player, with isCorrect
\* true exactly when the submitted sequence is the round's sequence, and with
\* correctSequence the round's sequence.
C8_ResultMatchesSequence ==
    (last.op = "simon:submit_sequence" /\ last.ok)
        => /\ Len(out) = 1
           /\ out[1].ev = "simon:result"
           /\ out[1].to = RoomSubs(sockState, sockJoined)
           /\ out[1].pl = last.player
           /\ out[1].data.isCorrect = (last.info.sequence = gameState.sequence)
           /\ out[1].data.correctSequence = gameState.sequence

\* C8 witness: a submission of the right length with a wrong color has been
\* judged, in a round later than the first.
C8_Witness ==
    /\ last.op = "simon:submit_sequence" /\ last.ok
    /\ gameState.round >= 2
    /\ Len(last.info.sequence) = Len(gameState.sequence)
    /\ last.info.sequence # gameState.sequence
    /\ ~out[1].data.isCorrect

\* C9: a player whose progress pointer has reached the sequence length is
\* not eliminated by a further simon:submit_input of the same round.
C9_CompletedNotEliminated ==
    [][\A p \in Players :
        (/\ last'.op = "simon:submit_input" /\ last'.player = p
         /\ gameState.gameType = "simon"
         /\ p \in Playing(gameState)
         /\ gameState.playerStates[p].currentInputIndex >= Len(gameState.sequence))
        => p \in Playing(gameState')]_vars

\* Every player still playing has a progress pointer at or beyond the
\* sequence length.
PlayingComplete(gs) ==
    \A q \in Playing(gs) : gs.playerStates[q].currentInputIndex >= Len(gs.sequence)

\* C10 as stated: the round advances only in a state where every playing
\* player has completed the round.
C10_AdvanceOnlyWhenComplete ==
    [][(last'.op = "advance_fire" /\ last'.ok) => PlayingComplete(gameState)]_vars

\* C10 amended: in a game played through per-step submissions the round
\* advances only in a state where every playing player has completed the
\* round (a correct whole-sequence submission advances it unconditionally).
C10_StepAdvanceOnlyWhenComplete ==
    [][(last'.op = "advance_fire" /\ last'.ok /\ clientMode = "input")
        => PlayingComplete(gameState)]_vars

\* C10 witness: a per-step game whose round has just advanced.
C10_Witness ==
    /\ last.op = "advance_fire" /\ last.ok
    /\ clientMode = "input"
    /\ gameState.round >= 2

\* A round-advance callback is pending.
AdvancePending == \E i \in 1..Len(timers) : timers[i].kind = "advance"

\* C11: in a per-step game, no state has the room active, a player still
\* playing, every playing player complete, and no round advance pending.
C11_CompleteHasAdvancePending ==
    ~(/\ clientMode = "input"
      /\ AdvanceApplies
      /\ Playing(gameState) # {}
      /\ PlayingComplete(gameState)
      /\ ~AdvancePending)

\* The step that ran last broadcast simon:game_finished.
FinishBroadcast == \E i \in 1..Len(out) : out[i].ev = "simon:game_finished"

\* The step that ran last applied an elimination: a mismatching step, or the
\* delayed elimination after an incorrect whole-sequence submission.
EliminationApplied ==
    \/ last.op = "eliminate_fire"
    \/ /\ last.op = "simon:submit_input"
       /\ \E i \in 1..Len(out) : out[i].ev = "simon:player_eliminated"

\* C12: a step finishes the sequence game (simon:game_finished broadcast,
\* status finished) exactly when it has applied an elimination and the
\* should-end predicate holds on the resulting game state.
C12_FinishIffEliminationEnds ==
    FinishBroadcast <=>
        (/\ EliminationApplied
         /\ gameState.gameType = "simon"
         /\ ShouldGameEnd(gameState)
         /\ status = "finished")

\* The step (color, idx) of player p does not match: idx is not p's progress
\* pointer, or color is not the sequence's color at that position.
StepMismatches(gs, p, color, idx) ==
    \/ idx # gs.playerStates[p].currentInputIndex
    \/ idx >= Len(gs.sequence)
    \/ gs.sequence[idx + 1] # color

\* C13: in an active sequence game a simon:submit_input of a playing player
\* whose step does not match eliminates that player in the same step and
\* broadcasts simon:player_eliminated with reason wrong_color to the room
\* first, and only a step that does not match eliminates; a submission of
\* either kind (simon:submit_input or simon:submit_sequence) naming a player
\* whose status is not playing changes neither the game state, the room, nor
\* the pending callbacks, and emits nothing.
C13_MismatchEliminatesThenDiscarded ==
    [][\A p \in Players :
        (/\ last'.op \in {"simon:submit_input", "simon:submit_sequence"}
         /\ last'.player = p
         /\ gameState.gameType = "simon"
         /\ p \in DOMAIN gameState.playerStates)
        => /\ (gameState.playerStates[p].status # "playing")
                => (/\ ~last'.ok
                    /\ gameState' = gameState
                    /\ status' = status
                    /\ timers' = timers
                    /\ out' = << >>
                    /\ UNCHANGED <<roomExists, members, connected, socketId, host>>)
           /\ (/\ last'.op = "simon:submit_input"
               /\ roomExists /\ status = "active"
               /\ gameState.playerStates[p].status = "playing")
                => IF StepMismatches(gameState, p, last'.info.color, last'.info.index)
                   THEN /\ gameState'.playerStates[p].status = "eliminated"
                        /\ out'[1] = Msg("simon:player_eliminated",
                                         RoomSubs(sockState, sockJoined), p,
                                         [reason |-> "wrong_color"])
                        /\ timers' = timers
                   ELSE /\ gameState'.playerStates[p].status = "playing"
                        /\ \A i \in 1..Len(out') : out'[i].ev # "simon:player_eliminated"]_vars

\* C13 witness: a room still active after a mismatching step eliminated a
\* player, in which a simon:submit_sequence naming the eliminated player has
\* just been discarded.
C13_Witness ==
    /\ last.op = "simon:submit_sequence" /\ ~last.ok
    /\ AdvanceApplies
    /\ last.player \in DOMAIN gameState.playerStates
    /\ gameState.playerStates[last.player].status = "eliminated"
    /\ Playing(gameState) # {}
    /\ out = << >>

\* A simon:submit_input naming an eliminated player of an active room has
\* just been discarded.
C13_StepDiscarded ==
    /\ last.op = "simon:submit_input" /\ ~last.ok
    /\ AdvanceApplies
    /\ last.player \in DOMAIN gameState.playerStates
    /\ gameState.playerStates[last.player].status = "eliminated"
    /\ out = << >>

\* The player_left notices for player p among the messages of the last step.
LeftNotices(msgs, p) == {i \in 1..Len(msgs) : msgs[i].ev = "player_left" /\ msgs[i].pl = p}

\* C14: a lost connection whose grace timers are not interrupted by a rebind.
\* The buffer callback marks the member disconnected, broadcasts
\* player_disconnected and starts the removal timer, which nothing else
\* starts; the removal callback removes a member still marked disconnected
\* and broadcasts player_left for it once, followed by room_state_update if
\* the room still exists and room_closed if not; a player_left notice always
\* goes with the removal of a member and members are never added back, so it
\* is never repeated; and both callbacks eventually run.
C14_GraceThenRemovedOnce ==
    /\ [][/\ (last'.op = "buffer_fire" /\ last'.ok)
              => (/\ ~connected'[last'.player]
                  /\ Len(out') = 1
                  /\ out'[1].ev = "player_disconnected" /\ out'[1].pl = last'.player
                  /\ graceTimer'[last'.sock] = "removal")
          /\ \A s \in Sockets :
               (graceTimer[s] # "removal" /\ graceTimer'[s] = "removal")
                   => (last'.op = "buffer_fire" /\ last'.sock = s)
          /\ (/\ last'.op = "removal_fire"
              /\ roomExists /\ last'.player \in members /\ ~connected[last'.player])
              => (/\ last'.player \notin members'
                  /\ Len(out') = 2
                  /\ out'[1].ev = "player_left" /\ out'[1].pl = last'.player
                  /\ out'[2].ev = IF roomExists' THEN "room_state_update" ELSE "room_closed")
          /\ members' \subseteq members
          /\ \A p \in Players :
               /\ Cardinality(LeftNotices(out', p)) <= 1
               /\ LeftNotices(out', p) # {} => (p \in members /\ p \notin members')]_vars
    /\ \A s \in Sockets : (graceTimer[s] = "buffer") ~> (graceTimer[s] # "buffer")
    /\ \A s \in Sockets :
         (/\ graceTimer[s] = "removal" /\ roomExists
          /\ sockPlayer[s] \in members /\ ~connected[sockPlayer[s]])
         ~> (\/ ~roomExists \/ sockPlayer[s] \notin members \/ connected[sockPlayer[s]])

\* C14 witness: the removal callback has just removed a player from a room
\* that goes on with another member.
C14_Witness ==
    /\ last.op = "removal_fire" /\ last.ok
    /\ roomExists /\ members # {}
    /\ last.player \notin members
    /\ Len(out) = 2 /\ out[1].ev = "player_left" /\ out[2].ev = "room_state_update"

\* C15: simon:sequence_complete and simon:input_phase are broadcast only for
\* a room that, when the callback runs, exists, is active and holds the
\* sequence-game round that scheduled the callback.
C15_PacingRevalidates ==
    (last.op \in {"sequence_complete_fire", "input_phase_fire"} /\ out # << >>)
        => (AdvanceApplies /\ gameState.round = last.info.round)

\* C16: on a room that still exists, the delayed elimination after an
\* incorrect whole-sequence submission acts only if the room is active, and
\* the game state it writes is the elimination applied to the game state
\* current when it runs; otherwise it changes and broadcasts nothing.
C16_EliminationUsesCurrentState ==
    [][(last'.op = "eliminate_fire" /\ roomExists)
        => IF AdvanceApplies
           THEN gameState' = EliminatePlayer(gameState, last'.player)
           ELSE gameState' = gameState /\ status' = status /\ out' = << >>]_vars

\* C17: a grace timer callback that runs when the room is gone or its player
\* is no longer a member changes nothing in the registry and delivers no
\* notification to any connection.
C17_StaleGraceTimerIsNoOp ==
    [][(/\ last'.op \in {"buffer_fire", "removal_fire"}
        /\ ~(roomExists /\ last'.player \in members))
        => (/\ UNCHANGED registryVars
            /\ \A i \in 1..Len(out') : out'[i].to = {})]_vars

\* C18: a start_game request starts a countdown only for an existing room in
\* waiting status whose member flagged as host is the requester, and then no
\* countdown is running yet; every other request leaves the status, the game
\* state, the countdown and the pending callbacks unchanged and sends at most
\* one error notice, to the requesting connection alone.
C18_StartOnlyByHostOfWaitingRoom ==
    [][(last'.op = "start_game")
        => IF /\ roomExists /\ status = "waiting"
              /\ last'.player \in members /\ last'.player = host
           THEN /\ last'.ok
                /\ cdCount = -1 /\ cdCount' = 3
                /\ status' = "countdown"
           ELSE /\ ~last'.ok
                /\ status' = status /\ gameState' = gameState
                /\ cdCount' = cdCount /\ timers' = timers
                /\ Len(out') <= 1
                /\ \A i \in 1..Len(out') :
                     out'[i].ev = "error" /\ out'[i].to = {last'.sock}]_vars

\* C18 witness: the host has asked again while the countdown runs and was refused.
C18_Witness ==
    /\ last.op = "start_game" /\ ~last.ok
    /\ roomExists /\ last.player = host
    /\ status = "countdown" /\ cdCount \in 0..2

\* The messages of a step that carry the given event.
Emitted(msgs, ev) == {i \in 1..Len(msgs) : msgs[i].ev = ev}

\* C19: a successful start_game sets the status to countdown and the count to
\* 3; every tick broadcasts exactly one countdown message, carrying the
\* current count, and lowers the count by one until the tick with 0 has been
\* sent, and nothing else changes the count (so the ticks are 3, 2, 1, 0,
\* each once); the status becomes active and the game state is initialised
\* only in the tick that carries 0, and in that tick if the room exists; the
\* first simon:show_sequence is broadcast only after that tick.
C19_CountdownThreeToZero ==
    [][/\ (last'.op = "start_game" /\ last'.ok)
            => (status' = "countdown" /\ cdCount' = 3)
       /\ (last'.op = "countdown_tick")
            => (/\ cdCount \in 0..3
                /\ cdCount' = cdCount - 1
                /\ Emitted(out', "countdown") = {1}
                /\ out'[1].data.count = cdCount
                /\ out'[1].to = RoomSubs(sockState, sockJoined)
                /\ (cdCount = 0 /\ roomExists)
                     => (status' = "active" /\ gameState'.gameType = "simon"))
       /\ (cdCount' # cdCount) => last'.op \in {"start_game", "countdown_tick"}
       /\ (last'.op # "countdown_tick") => Emitted(out', "countdown") = {}
       /\ (status # "active" /\ status' = "active")
            => (last'.op = "countdown_tick" /\ cdCount = 0)
       /\ (gameState = NoGame /\ gameState' # NoGame)
            => (last'.op = "countdown_tick" /\ cdCount = 0)
       /\ (Emitted(out', "simon:show_sequence") # {})
            => (cdCount = -1 /\ status \in {"active", "finished"})]_vars

\* C19 witness: the tick carrying 0 has just been sent to both connections;
\* the room is active, the game initialised, the first display scheduled.
C19_Witness ==
    /\ last.op = "countdown_tick" /\ last.info.count = 0
    /\ out[1].to = {"s1", "s2"}
    /\ status = "active" /\ gameState.gameType = "simon"
    /\ Len(timers) = 1 /\ timers[1].kind = "start"

\* C20: a countdown tick that fires when the room no longer exists delivers
\* no countdown message to any connection, and changes neither the registry
\* nor the pending callbacks.
C20_TickStopsWithoutRoom ==
    [][(last'.op = "countdown_tick" /\ ~roomExists)
        => (/\ \A i \in 1..Len(out') : out'[i].to = {}
            /\ UNCHANGED <<registryVars, timers>>)]_vars

\* C21: a bind attempt, by session token or by join_room_socket, that names
\* an absent room or a player who is not a member changes nothing in the
\* registry, binds and subscribes no connection, touches no grace timer, and
\* emits at most one notice: an error to the requesting connection alone.
C21_FailedBindChangesNothing ==
    [][(/\ last'.op \in {"connect", "join_room_socket"}
        /\ last'.player # None
        /\ ~(roomExists /\ last'.player \in members))
        => (/\ UNCHANGED <<registryVars, sockPlayer, sockJoined, graceVars, gameVars>>
            /\ Len(out') <= 1
            /\ \A i \in 1..Len(out') :
                 out'[i].ev = "error" /\ out'[i].to = {last'.sock})]_vars

\* C21 witness: a join_room_socket naming a player who is no longer a member
\* of the room, which goes on with another member, has just been refused.
C21_Witness ==
    /\ last.op = "join_room_socket" /\ ~last.ok
    /\ roomExists /\ members # {} /\ last.player \notin members
    /\ Len(out) = 1 /\ out[1].ev = "error"

\* The open connections subscribed to the room in the state after a step.
SubscribersAfter == {s \in Sockets : sockState'[s] = "open" /\ sockJoined'[s]}

\* C22: a successful join_room_socket stores the connection as the player's
\* connection reference, binds the connection to the player, subscribes it to
\* the room, and emits, in this order, room_state to the joiner alone,
\* room_state_update to every subscriber (the joiner among them) and
\* player_joined to every subscriber but the joiner.
C22_JoinBindsAndNotifies ==
    [][(/\ last'.op = "join_room_socket"
        /\ roomExists /\ last'.player \in members)
        => (/\ last'.ok
            /\ socketId'[last'.player] = last'.sock
            /\ sockPlayer'[last'.sock] = last'.player
            /\ sockJoined'[last'.sock]
            /\ last'.sock \in SubscribersAfter
            /\ Len(out') = 3
            /\ out'[1].ev = "room_state" /\ out'[1].to = {last'.sock}
            /\ out'[2].ev = "room_state_update" /\ out'[2].to = SubscribersAfter
            /\ out'[3].ev = "player_joined"
            /\ out'[3].to = SubscribersAfter \ {last'.sock}
            /\ out'[3].pl = last'.player)]_vars

\* C22 witness: a join has just succeeded while another connection is
\* subscribed to the room and a third is open without a subscription.
C22_Witness ==
    /\ last.op = "join_room_socket" /\ last.ok
    /\ Len(out) = 3
    /\ out[3].to # {}
    /\ \E s \in Sockets : sockState[s] = "open" /\ ~sockJoined[s]

\* C23: a connection whose session token names a member of the existing room
\* becomes the player's connection reference, the player is marked
\* connected, the connection is bound to the player and subscribed, the
\* key's timer-table entry is deleted and the timer it held is cancelled,
\* player_reconnected goes to the room's other subscribers and not to the
\* new connection, and room_state goes to the new connection alone.
C23_TokenRebindBindsAndNotifies ==
    [][(/\ last'.op = "connect"
        /\ last'.player # None
        /\ roomExists /\ last'.player \in members)
        => (/\ last'.ok
            /\ socketId'[last'.player] = last'.sock
            /\ connected'[last'.player]
            /\ sockPlayer'[last'.sock] = last'.player
            /\ sockJoined'[last'.sock]
            /\ disconnectTimeouts'[last'.player] = None
            /\ disconnectTimeouts[last'.player] # None
                 => graceTimer'[disconnectTimeouts[last'.player]] = "none"
            /\ Len(out') = 2
            /\ out'[1].ev = "player_reconnected" /\ out'[1].pl = last'.player
            /\ out'[1].to = SubscribersAfter \ {last'.sock}
            /\ out'[2].ev = "room_state" /\ out'[2].to = {last'.sock})]_vars

\* C23 witness: a token rebind has just cancelled a pending grace timer of
\* its player and notified another subscribed connection.
C23_Witness ==
    /\ last.op = "connect" /\ last.ok
    /\ connected[last.player]
    /\ \E s \in Sockets : /\ sockState[s] = "closed" /\ sockPlayer[s] = last.player
                          /\ graceTimer[s] = "none"
    /\ disconnectTimeouts[last.player] = None
    /\ Len(out) = 2 /\ out[1].to # {}

\* The open connections subscribed to the room in the current state.
Subscribers == {s \in Sockets : sockState[s] = "open" /\ sockJoined[s]}

\* C24 as stated: every notification that reaches a connection is delivered
\* either to the triggering connection alone or to every connection
\* subscribed to the room.
C24_TwoDeliveryModes ==
    \A i \in 1..Len(out) :
        \/ out[i].to = {}
        \/ out[i].to = {last.sock}
        \/ out[i].to = Subscribers

\* C24 amended: a notification is delivered to the triggering connection
\* alone, to every connection subscribed to the room, or, for
\* player_reconnected and player_joined, to every subscribed connection
\* except the triggering one.
C24_ThreeDeliveryModes ==
    \A i \in 1..Len(out) :
        \/ out[i].to = {last.sock}
        \/ out[i].to = Subscribers
        \/ /\ out[i].ev \in {"player_reconnected", "player_joined"}
           /\ last.sock \in Subscribers
           /\ out[i].to = Subscribers \ {last.sock}

\* C24 witness: player_joined has just been delivered to the other
\* subscribers of the room while the joiner received the room snapshot.
C24_Witness ==
    /\ last.op = "join_room_socket" /\ last.ok
    /\ out[2].to = Subscribers /\ Cardinality(Subscribers) >= 2
    /\ out[3].ev = "player_joined" /\ out[3].to = Subscribers \ {last.sock}

\* C25: a token rebind of a player whose connection loss is still in the
\* buffer delay delivers no notification about that player to a connection
\* of another room member.
C25_FlapIsInvisible ==
    [][(/\ last'.op = "connect" /\ last'.ok
        /\ \E s \in Sockets : graceTimer[s] = "buffer" /\ sockPlayer[s] = last'.player)
        => \A i \in 1..Len(out') :
             out'[i].pl = last'.player
                 => \A r \in out'[i].to : sockPlayer'[r] = last'.player]_vars

\* C27: once a player's whole-sequence submission has been processed in the
\* open input phase of a round, the same player's next submission in that
\* round delivers no simon:result and schedules no timer.
C27_SecondSubmissionIgnored ==
    [][(/\ last.op = "simon:submit_sequence" /\ last.ok
        /\ phaseRound = gameState.round
        /\ last'.op = "simon:submit_sequence" /\ last'.player = last.player)
       => (/\ \A i \in 1..Len(out') :
                 ~(out'[i].ev = "simon:result" /\ out'[i].to # {})
           /\ timers' = timers)]_vars

\* The variant a submission event belongs to.
EventVariant(op) == IF op = "color_race:submit_answer" THEN "color_race" ELSE "simon"

SubmissionOps == {"color_race:submit_answer", "simon:submit_sequence", "simon:submit_input"}

\* C28: a submission handled while the room is absent, its status is not
\* active, or its game state is missing or of the other variant changes
\* neither the answer list, the game state nor the room status, delivers no
\* message and schedules no timer.
C28_MismatchedSubmissionIgnored ==
    [][(/\ last'.op \in SubmissionOps
        /\ ~(/\ roomExists /\ status = "active"
             /\ gameState.gameType = EventVariant(last'.op)))
       => (/\ roundAnswers' = roundAnswers
           /\ gameState' = gameState
           /\ status' = status
           /\ timers' = timers
           /\ out' = << >>)]_vars

\* A submission of the other variant has just been discarded in an active game.
C28_Witness ==
    /\ last.op \in SubmissionOps /\ ~last.ok
    /\ roomExists /\ status = "active"
    /\ gameState.gameType \notin {"none", EventVariant(last.op)}

\* C29: whenever simon:show_sequence is broadcast to the room for a round, the
\* last simon:input_phase broadcast was the one of the round before it (none
\* for round 1): the lifecycles of two rounds do not interleave.
C29_RoundLifecyclesInOrder ==
    \A i \in Emitted(out, "simon:show_sequence") :
        out[i].to # {} => phaseRound = out[i].data.round - 1

\* C30: when a removal timer removes a player, the timer table has no entry
\* for the player's key and no grace timer of that key is pending afterwards,
\* also when another connection of the player closed just before the timer ran.
C30_RemovalLeavesNoGraceState ==
    [][(/\ last.op = "disconnect" /\ last.ok
        /\ last'.op = "removal_fire" /\ last'.ok
        /\ last'.player = last.player)
       => (/\ disconnectTimeouts'[last'.player] = None
           /\ \A s \in Sockets :
                 sockPlayer'[s] = last'.player => graceTimer'[s] = "none")]_vars

\* C31: no step replaces a sequence-game state of the room by one with a
\* smaller round number.
C31_RoundNeverDecreases ==
    [][(gameState.gameType = "simon" /\ gameState'.gameType = "simon")
       => gameState'.round >= gameState.round]_vars

\* C32: the persisted round number is never more than one ahead of the round
\* whose input phase was announced last: a round is advanced once before the
\* next simon:input_phase.
C32_RoundAdvancedOnce ==
    gameState.gameType = "simon" => gameState.round <= phaseRound + 1

\* The notices of the two games.
GameNotices ==
    {"simon:show_sequence", "simon:sequence_complete", "simon:input_phase",
     "simon:result", "simon:input_correct", "simon:player_eliminated",
     "simon:game_finished", "color_race:new_round", "color_race:round_result",
     "color_race:game_finished"}

\* C33: once the status of the room is finished, no step changes the room's
\* game state or delivers another game notice (in particular no second
\* game-finished notice).
C33_FinishedIsFinal ==
    [][(roomExists /\ status = "finished" /\ roomExists')
       => (/\ gameState' = gameState
           /\ \A i \in 1..Len(out') :
                 ~(out'[i].ev \in GameNotices /\ out'[i].to # {}))]_vars

\* Position of a room status on the path waiting, countdown, active, finished.
StatusRank(st) ==
    CASE st = "waiting" -> 0
      [] st = "countdown" -> 1
      [] st = "active" -> 2
      [] st = "finished" -> 3

\* C34: no step moves the room status backwards along waiting, countdown,
\* active, finished.
C34_StatusMovesForward ==
    [][StatusRank(status') >= StatusRank(status)]_vars

\* The host has asked to start a finished game again and the room stayed finished.
C34_Witness ==
    /\ roomExists /\ status = "finished"
    /\ last.op = "start_game" /\ ~last.ok /\ last.player = host

\* C36: a buffer callback delivers player_disconnected only for a player who,
\* when the callback runs, is a member of the existing room, is marked
\* connected and is bound to no open connection.
C36_DisconnectNoticeOnlyForLost ==
    [][(/\ last'.op = "buffer_fire"
        /\ \E i \in Emitted(out', "player_disconnected") : out'[i].to # {})
       => (/\ roomExists /\ last'.player \in members
           /\ connected[last'.player]
           /\ ~LiveBinding(last'.player))]_vars

RaceNotices == {"color_race:new_round", "color_race:round_result", "color_race:game_finished"}

\* C37: with the variant fixed to the sequence game, no game state is a race
\* state, every color_race:submit_answer is rejected, the answer list stays
\* empty and no race round is ever processed or announced.
C37_RaceNeverPlayed ==
    /\ gameState.gameType # "color_race"
    /\ roundAnswers = << >>
    /\ last.op = "color_race:submit_answer" => ~last.ok
    /\ \A i \in 1..Len(out) : out[i].ev \notin RaceNotices

\* A race answer has just been rejected in an active sequence game.
C37_Witness ==
    /\ last.op = "color_race:submit_answer" /\ ~last.ok
    /\ roomExists /\ status = "active" /\ gameState.gameType = "simon"
    /\ roundAnswers = << >>

====
